---- MODULE Spec2Model ----
(***************************************************************************)
(* Order / stock / payment reconciliation of the vitafer backend.          *)
(*                                                                         *)
(* The model follows the latest server file (src/unnamed/part_001): the    *)
(* checkout endpoint POST /api/create-preference, the notification         *)
(* endpoint POST /api/mercadopago-webhook, the manual stock update and the *)
(* dispatch endpoints.                                                     *)
(*                                                                         *)
(* The document store is modelled at the grain the code uses it:           *)
(*   - a single-document updateOne is atomic;                              *)
(*   - session.withTransaction runs its callback on a snapshot, commits    *)
(*     all its writes at once, and re-runs the callback when a document    *)
(*     it writes was written by somebody else since the snapshot (write    *)
(*     conflict, a TransientTransactionError).                             *)
(* Every await of a handler is a point where other handlers may run.       *)
(***************************************************************************)
EXTENDS Integers, Sequences, FiniteSets, TLC

\* ------------------------------------------------------------------ bounds
MaxRequests == 3    \* checkout, notification and stock update requests of one run
MaxCalls == 2       \* checkout requests of one run
MaxShipping == 2    \* dispatch and unship requests served at the same time
InitStock == 1      \* stock of every product when the run starts

NULL == "null"

\* ------------------------------------------------------------------ inputs
Products == {"A", "B"}          \* products with an inventory record at start
UnknownProduct == "C"           \* a product id with no inventory record at start

CallIds == 1..MaxCalls
NotifIds == 1..MaxRequests

Item(id, q) == [id |-> id, quantity |-> q]

\* req.body.items of the checkout requests: an empty cart, one item, two
\* products, the same product twice, a negative quantity, an unknown product
Carts ==
    { << >>,
      << Item("A", 1) >>,
      << Item("B", 1), Item("A", 1) >>,
      << Item("A", 1), Item("A", 1) >>,
      << Item("A", -1) >>,
      << Item(UnknownProduct, 1) >> }

\* the carts of the runs that follow orders through their notifications
PlainCarts == { << Item("A", 1) >>, << Item("B", 1), Item("A", 1) >> }

\* req.body of a checkout request: the items, whether customerDetails is
\* there, and totalAmount as it was sent
Body(items, customerDetails, totalAmount) ==
    [ items |-> items, customerDetails |-> customerDetails,
      totalAmount |-> totalAmount ]

\* the bodies of the checkout requests: every cart with customer details
\* and a numeric total
ValidBodies == { Body(items, TRUE, "10") : items \in Carts }

\* and with them a cart without customer details and a cart whose total is
\* not a number
Bodies ==
    ValidBodies
    \cup { Body(<< Item("A", 1) >>, FALSE, "10"),
           Body(<< Item("A", 1) >>, TRUE, "abc") }

PlainBodies == { Body(items, TRUE, "10") : items \in PlainCarts }

\* parseFloat on the totals sent: a number, or NaN
ParseFloat(text) ==
    IF text = "10" THEN [nan |-> FALSE, value |-> 10]
    ELSE [nan |-> TRUE, value |-> 0]

\* x || 0: NaN and 0 are falsy
OrZero(x) == IF x.nan \/ x.value = 0 THEN [nan |-> FALSE, value |-> 0] ELSE x

\* isNaN
IsNaN(x) == x.nan

\* productId and newStock of the manual stock updates
SetIds == { "A" }
StockInputs == { -1, 1 }

\* trackingNumber of the dispatch requests: a number, or an empty string
TrackingInputs == { "trk", "" }

\* the dispatch and unship requests served at the same time
ShipIds == 1..MaxShipping

\* orderId of the dispatch and unship requests: 0 is not a valid ObjectId, 1
\* is the id of the first order, 2 the id of no order of the runs that
\* dispatch
ShipOrderIds == { 0, 1, 2 }

\* how the store answers the update of a dispatch or unship request: it
\* works, the updateOne fails, or the lookup after the update fails
ShipOutcomes == { "ok", "updatefails", "lookupfails" }

\* the status of a payment, as payment.get reports it
MPStatuses ==
    { "approved", "rejected", "cancelled", "refunded", "charged_back",
      "in_process", "pending", "authorized" }

\* the statuses the gateway reports in the runs explored
RunStatuses == { "approved", "rejected", "pending", "authorized" }

PaymentIds == { "pay1" }

\* query.orderId of a notification: 0 when the request carries none
QueryOrderIds == { 0, 1 }

\* query.topic || query.type, body.type and body.data.id of a notification
Topics == { "payment", "merchant_order" }
BodyTypes == { "payment", NULL }
DataIds == PaymentIds \cup { NULL }

\* ------------------------------------------------------- thrown errors
\* An error is identified by where it was thrown; what the code reads of it
\* is its message, through includes().
\*   insufficient : line 258  `Stock insuficiente para "..". Disponible: ..`
\*   noupdate     : line 270  `No se pudo actualizar el stock para ".."`
\*   store        : a store failure (insertOne / updateOne rejected)
\*   gw_plain     : the gateway rejected, its message does not contain "stock"
\*   gw_stock     : the gateway rejected, its message contains "stock"
\*   gw_nomsg     : the gateway threw a value that has no message property
\*   amount       : line 295  `El monto total de la orden es inválido.`
GatewayErrors == { "gw_plain", "gw_stock", "gw_nomsg" }

HasMessage(e) == e # "gw_nomsg"

\* error.message.toLowerCase().includes('stock')
LowerIncludesStock(e) == e \in { "insufficient", "noupdate", "gw_stock" }

\* error.message.includes("Stock insuficiente")
IncludesStockInsuficiente(e) == e = "insufficient"

\* error.message.includes("No se pudo actualizar el stock")
IncludesNoSePudo(e) == e = "noupdate"

\* error.message.includes("Stock")
IncludesStockCapital(e) == e = "insufficient"

\* the HTTP status of the catch block's response
ErrorStatus(e) ==
    IF IncludesStockInsuficiente(e) \/ IncludesNoSePudo(e) THEN 400 ELSE 500

ErrorType(e) == IF IncludesStockCapital(e) THEN "STOCK_ERROR" ELSE "SERVER_ERROR"

\* error.message: the text of the error, which names where it was thrown
ErrorText(e) ==
    IF e = "insufficient" THEN "Stock insuficiente"
    ELSE IF e = "noupdate" THEN "No se pudo actualizar el stock"
    ELSE IF e = "amount" THEN "El monto total de la orden es invalido"
    ELSE IF e = "store" THEN "text of the store error"
    ELSE IF e = "gw_plain" THEN "text of the gateway error"
    ELSE IF e = "gw_stock" THEN "text of the gateway error, with stock"
    ELSE ""

\* the messages the handler words itself: without a store handle, for a
\* body of the wrong shape, and for an error without text
FixedMessages ==
    { "Error interno: Sin conexion a base de datos",
      "Datos de la orden invalidos o incompletos",
      "Error interno del servidor al crear la preferencia" }

\* message of the response of createOrder: error.message || 'Error interno
\* del servidor al crear la preferencia' in the catch block, the fixed texts
\* of the checks before it
JsonMessage(status, e) ==
    IF status = 201 THEN NULL
    ELSE IF e = NULL
    THEN (IF status = 400 THEN "Datos de la orden invalidos o incompletos"
          ELSE "Error interno: Sin conexion a base de datos")
    ELSE IF ErrorText(e) = ""
    THEN "Error interno del servidor al crear la preferencia"
    ELSE ErrorText(e)

\* an error value: its kind, and for `Stock insuficiente` the product, the
\* available and the requested quantity its message names
Err(kind) == [kind |-> kind, id |-> NULL, available |-> 0, requested |-> 0]

NoErr == Err(NULL)

\* ------------------------------------------------------------------- state
VARIABLES
    db,         \* the store handle is set (connectDB finished)
    stock,      \* collection products: productId -> stock, for the records that exist
    orders,     \* collection orders: order id -> order document
    call,       \* per createOrder request: its position and locals
    hook,       \* per notification: its position and locals
    sent,       \* the response the last step sent, if it sent one
    requests,   \* checkout, notification and stock update requests received
    shipping,   \* per dispatch or unship request: its position and locals
    hookRel,    \* history: per order, number of notification commits that released its stock
    everPaid,   \* history: orders that were paid at some time
    manual,     \* history: products whose stock was set by hand
    released    \* history: products that received a release

vars == << db, stock, orders, call, hook, sent, requests, shipping,
           hookRel, everPaid, manual, released >>

history == << hookRel, everPaid, manual, released >>

\* ------------------------------------------------------------ small helpers
ItemIds(items) == { items[i].id : i \in 1..Len(items) }

RECURSIVE SumQty(_, _)
\* total quantity the items ask of product p
SumQty(items, p) ==
    IF items = << >> THEN 0
    ELSE (IF Head(items).id = p THEN Head(items).quantity ELSE 0)
         + SumQty(Tail(items), p)

Exists(view, p) == p \in DOMAIN view

\* productInInventory?.stock || 0
Available(view, p) == IF Exists(view, p) THEN view[p] ELSE 0

\* ---------------------------------------------- the checkout transaction
RECURSIVE FirstInsufficient(_, _, _)
\* step 1 of the callback: index of the first item whose product is missing
\* or has stock < quantity in the transaction's view; 0 when there is none
FirstInsufficient(view, items, i) ==
    IF i > Len(items) THEN 0
    ELSE IF ~Exists(view, items[i].id) \/ view[items[i].id] < items[i].quantity
         THEN i
         ELSE FirstInsufficient(view, items, i + 1)

\* a filter that names the product only: { productId }
MatchesProductOnly(view, item) == Exists(view, item.id)

\* the filter of the conditional update: { productId, stock: { $gte: quantity } }
MatchesGte(view, item) == Exists(view, item.id) /\ view[item.id] >= item.quantity

RECURSIVE Decrement(_, _, _)
\* step 2 of the callback on the transaction's own view: the view after the
\* conditional $inc of items i.., and the index of the item whose update
\* modified nothing (0 when every update modified a record)
Decrement(view, items, i) ==
    IF i > Len(items) THEN [view |-> view, failed |-> 0]
    ELSE IF ~MatchesGte(view, items[i])
         THEN [view |-> view, failed |-> i]
         ELSE Decrement([view EXCEPT ![items[i].id] = @ - items[i].quantity],
                        items, i + 1)

\* the callback of session.withTransaction on a view of the products:
\* what it throws (NULL when it reaches the insert), the view it leaves and
\* the items it pushed on itemsForRollback
RunTx(view, items) ==
    LET bad == FirstInsufficient(view, items, 1)
        dec == Decrement(view, items, 1)
    IN  IF bad # 0
        THEN [ err |-> [kind |-> "insufficient", id |-> items[bad].id,
                        available |-> Available(view, items[bad].id),
                        requested |-> items[bad].quantity],
               view |-> view, pushed |-> << >> ]
        ELSE IF dec.failed # 0
        THEN [ err |-> [Err("noupdate") EXCEPT !.id = items[dec.failed].id],
               view |-> view,
               pushed |-> SubSeq(items, 1, dec.failed - 1) ]
        ELSE [ err |-> NoErr, view |-> dec.view, pushed |-> items ]

\* newOrder.totalAmount
TotalAmount(totalAmount) == OrZero(ParseFloat(totalAmount))

\* an order document that waits for its preference
NewOrderPendingPreference(items, totalAmount) ==
    [ status |-> "pending_preference",
      items |-> items,
      totalAmount |-> TotalAmount(totalAmount).value,
      paymentStatus |-> "pending",
      mercadoPagoPaymentId |-> NULL,
      mercadoPagoPreferenceId |-> NULL,
      paidAt |-> NULL,
      shippedAt |-> NULL,
      trackingNumber |-> NULL ]

\* the order document inserted by the callback
NewOrder(items, totalAmount) ==
    [ status |-> "pending_payment",
      items |-> items,
      totalAmount |-> TotalAmount(totalAmount).value,
      paymentStatus |-> "pending",
      mercadoPagoPaymentId |-> NULL,
      mercadoPagoPreferenceId |-> NULL,
      paidAt |-> NULL,
      shippedAt |-> NULL,
      trackingNumber |-> NULL ]

\* what findOne returns when no order has the id
NoOrder == [NewOrder(<< >>, "10") EXCEPT !.status = "none"]

\* ------------------------------------------ the notification transaction
FailingStatuses == { "rejected", "cancelled", "refunded", "charged_back" }

\* a mapping without the branch of in_process and pending
TargetNoPending(paymentStatusFromMP) ==
    IF paymentStatusFromMP = "approved" THEN "paid"
    ELSE IF paymentStatusFromMP \in FailingStatuses THEN "failed"
    ELSE NULL

\* a mapping that takes every other status for a failure
TargetElseFailed(paymentStatusFromMP) ==
    IF paymentStatusFromMP = "approved" THEN "paid"
    ELSE IF paymentStatusFromMP \in { "in_process", "pending" } THEN "pending_payment"
    ELSE "failed"

\* newOrderStatusInDB, from the status the gateway reports (NULL: not handled)
TargetStatus(paymentStatusFromMP) ==
    IF paymentStatusFromMP = "approved" THEN "paid"
    ELSE IF paymentStatusFromMP \in FailingStatuses THEN "failed"
    ELSE IF paymentStatusFromMP \in { "in_process", "pending" } THEN "pending_payment"
    ELSE NULL

\* a release that looks at the payment only
ReleasesOnFailed(order, paymentStatusFromMP) ==
    TargetStatus(paymentStatusFromMP) = "failed"

\* the stock is given back: the payment failed and the order read in the
\* transaction is still pending_payment
ReleasesStock(order, paymentStatusFromMP) ==
    /\ TargetStatus(paymentStatusFromMP) = "failed"
    /\ order.status = "pending_payment"

\* a status write without its guard: every mapped status is written
WritesMapped(order, paymentStatusFromMP) ==
    TargetStatus(paymentStatusFromMP) # NULL

\* a guard that never takes a paid order back to pending_payment
NeedsWriteForward(order, paymentStatusFromMP) ==
    /\ TargetStatus(paymentStatusFromMP) # NULL
    /\ ~(order.status = "paid" /\ TargetStatus(paymentStatusFromMP) = "pending_payment")
    /\ \/ order.status # TargetStatus(paymentStatusFromMP)
       \/ order.paymentStatus # paymentStatusFromMP

\* the guard of the status write
NeedsWrite(order, paymentStatusFromMP) ==
    /\ TargetStatus(paymentStatusFromMP) # NULL
    /\ \/ order.status # TargetStatus(paymentStatusFromMP)
       \/ order.paymentStatus # paymentStatusFromMP

\* paymentDetailsUpdate applied to the order
Mirrored(order, paymentStatusFromMP, paymentId) ==
    [order EXCEPT !.mercadoPagoPaymentId = paymentId,
                  !.paymentStatus = paymentStatusFromMP]

\* a callback that takes the stock of the order when its payment is
\* confirmed: it gives back the negated quantities
WebhookBodyCharges(order, paymentStatusFromMP, paymentId) ==
    LET target == TargetStatus(paymentStatusFromMP)
        m == Mirrored(order, paymentStatusFromMP, paymentId)
        charged == [i \in 1..Len(order.items) |->
                      Item(order.items[i].id, 0 - order.items[i].quantity)]
    IN  IF target = NULL
        THEN [ order |-> m, release |-> << >>, wrote |-> TRUE ]
        ELSE [ order |->
                 IF NeedsWrite(order, paymentStatusFromMP)
                 THEN [m EXCEPT !.status = target,
                                !.paidAt = IF target = "paid" THEN "stamped" ELSE @]
                 ELSE order,
               release |->
                 IF ReleasesStock(order, paymentStatusFromMP) THEN order.items
                 ELSE IF target = "paid" /\ order.status = "pending_payment"
                 THEN charged ELSE << >>,
               wrote |-> NeedsWrite(order, paymentStatusFromMP) ]

\* the callback of the notification's withTransaction, after the order was
\* read: the order it writes, the items whose stock it gives back, and
\* whether it issues an order write at all
WebhookBody(order, paymentStatusFromMP, paymentId) ==
    LET target == TargetStatus(paymentStatusFromMP)
        m == Mirrored(order, paymentStatusFromMP, paymentId)
    IN  IF target = NULL
        THEN [ order |-> m, release |-> << >>, wrote |-> TRUE ]
        ELSE [ order |->
                 IF NeedsWrite(order, paymentStatusFromMP)
                 THEN [m EXCEPT !.status = target,
                                !.paidAt = IF target = "paid" THEN "stamped" ELSE @]
                 ELSE order,
               release |->
                 IF ReleasesStock(order, paymentStatusFromMP)
                 THEN order.items ELSE << >>,
               wrote |-> NeedsWrite(order, paymentStatusFromMP) ]

\* a release whose filter matches every record of the collection
ReleaseEvery(view, items) ==
    IF items = << >> THEN view
    ELSE [p \in DOMAIN view |-> view[p] + Head(items).quantity]

\* a release loop that ends after its first item
ReleaseFirstOnly(view, items) ==
    IF items = << >> \/ ~Exists(view, Head(items).id) THEN view
    ELSE [view EXCEPT ![Head(items).id] = @ + Head(items).quantity]

RECURSIVE Release(_, _)
\* updateOne({ productId }, { $inc: { stock: quantity } }) for each item, in
\* order; an update whose filter matches no record changes nothing
Release(view, items) ==
    IF items = << >> THEN view
    ELSE Release(IF Exists(view, Head(items).id)
                 THEN [view EXCEPT ![Head(items).id] = @ + Head(items).quantity]
                 ELSE view,
                 Tail(items))

\* ------------------------------------------------------ process records
AllIds == Products \cup {UnknownProduct}

ZeroQty == [p \in AllIds |-> 0]

\* a createOrder request that has not arrived yet; given: what its catch
\* block has given back so far, per product; retried: withTransaction ran
\* the callback again
IdleCall ==
    [ pc |-> "idle", items |-> << >>, stale |-> {},
      itemsForRollback |-> << >>, rb |-> 0, error |-> NoErr, given |-> ZeroQty,
      retried |-> FALSE, totalAmount |-> "10" ]

\* a notification that has not arrived yet
IdleHook ==
    [ pc |-> "idle", paymentId |-> NULL, status |-> NULL, ref |-> 0,
      order |-> NoOrder, staleProducts |-> {}, staleOrder |-> FALSE,
      externalReference |-> 0, orderId |-> 0 ]

\* a handler that returned
DoneCall == [IdleCall EXCEPT !.pc = "done"]

DoneHook == [IdleHook EXCEPT !.pc = "done"]

\* the end of a handler, as its client sees it: the HTTP status (0: the
\* handler ended without sending a response); for createOrder the cart, the
\* error whose message is sent, the errorType and what its catch block gave
\* back; for the notification handler how its transaction ended
NoEvent ==
    [ from |-> "none", id |-> 0, status |-> 0, items |-> << >>,
      error |-> NoErr, errorType |-> NULL, given |-> ZeroQty, outcome |-> NULL,
      externalReference |-> 0, orderId |-> 0, retried |-> FALSE,
      customerDetails |-> TRUE, totalAmount |-> "10", mercadoPagoUrl |-> NULL,
      op |-> NULL, trackingNumber |-> NULL, message |-> NULL,
      topic |-> NULL, bodyType |-> NULL, paymentId |-> NULL,
      paymentStatus |-> NULL, paymentGet |-> FALSE ]

CallEvent(c, status, items, e, given) ==
    [NoEvent EXCEPT
        !.from = "call", !.id = c, !.status = status, !.items = items,
        !.error = e, !.errorType = IF e.kind = NULL THEN NULL ELSE ErrorType(e.kind),
        !.given = given,
        !.message = IF status = 0 THEN NULL ELSE JsonMessage(status, e.kind)]

\* a handler that reports its failures to the gateway
HookEventStatus(n, outcome) ==
    [NoEvent EXCEPT !.from = "hook", !.id = n, !.outcome = outcome,
                    !.status = IF outcome \in { "aborted", "noorder", "getfails" }
                               THEN 500 ELSE 200]

\* res.sendStatus(200), the last statement of the notification handler
HookEvent(n, outcome) ==
    [NoEvent EXCEPT !.from = "hook", !.id = n, !.status = 200, !.outcome = outcome]

\* no dispatch or unship request is being served in the slot: none arrived,
\* or the one that did was answered
IdleShip ==
    [ pc |-> "idle", op |-> NULL, orderId |-> 0, trackingNumber |-> NULL ]

\* the response of a dispatch or unship request
ShipEvent(s, op, orderId, trackingNumber, status) ==
    [NoEvent EXCEPT !.from = "ship", !.id = s, !.op = op, !.orderId = orderId,
                    !.trackingNumber = trackingNumber, !.status = status]

Init ==
    /\ db = FALSE
    /\ stock = [p \in Products |-> InitStock]
    /\ orders = << >>
    /\ call = [c \in CallIds |-> IdleCall]
    /\ hook = [n \in NotifIds |-> IdleHook]
    /\ sent = NoEvent
    /\ requests = 0
    /\ shipping = [s \in ShipIds |-> IdleShip]
    /\ hookRel = [c \in CallIds |-> 0]
    /\ everPaid = {}
    /\ manual = {}
    /\ released = {}

\* connectDB: the store handle becomes available
ConnectDB ==
    /\ ~db
    /\ db' = TRUE
    /\ sent' = NoEvent
    /\ UNCHANGED << stock, orders, call, hook, requests, shipping, history >>

\* ----------------------------------------- write conflicts of transactions
\* the products a checkout transaction writes
CallWrites(r) == ItemIds(r.items)

\* decrements issued outside the transaction never conflict
TxNoSession(r) == FALSE

\* the transaction of request r conflicts: a product it writes was written
\* by somebody else since its snapshot
TxConflict(r) == r.stale # {}

\* a committed write of the products ps by somebody other than request me:
\* every open checkout transaction that writes one of them is now stale
TouchCalls(cl, me, ps) ==
    [ c \in CallIds |->
        IF c # me /\ cl[c].pc = "commit"
        THEN [cl[c] EXCEPT !.stale = @ \cup (ps \cap CallWrites(cl[c]))]
        ELSE cl[c] ]

\* the products a notification transaction writes, from the order it read
HookReleaseIds(h) == ItemIds(WebhookBody(h.order, h.status, h.paymentId).release)

\* updates issued outside the transaction never conflict
HookNoSession(h) == FALSE

\* the transaction of notification h conflicts: the order, or a product it
\* writes, was written by somebody else since its snapshot
HookConflict(h) == h.staleOrder \/ h.staleProducts # {}

\* a committed write of the products ps and of the orders os by somebody
\* other than notification me; the callback that lost reads the order again
\* when it is run again, what it had read is dropped
TouchHooks(hk, me, ps, os) ==
    [ n \in NotifIds |->
        IF n # me /\ hk[n].pc = "commit"
        THEN LET h == [hk[n] EXCEPT
                        !.staleProducts = @ \cup (ps \cap HookReleaseIds(hk[n])),
                        !.staleOrder = @ \/ (hk[n].ref \in os)]
             IN  IF HookConflict(h) THEN [h EXCEPT !.order = NoOrder] ELSE h
        ELSE hk[n] ]

\* a request is received: the run's budget of requests, and the slots are
\* taken in order
Arrives(slots, i) ==
    /\ requests < MaxRequests
    /\ slots[i].pc = "idle"
    /\ \A j \in DOMAIN slots : j < i => slots[j].pc # "idle"

\* ------------------------------------------------- POST /api/create-preference
\* The steps of createOrder return the locals of the request and the event
\* of the step: [r |-> locals, ev |-> event].
Ends(c, status, items, e, given) ==
    [ r |-> DoneCall,
      ev |-> [CallEvent(c, status, items, e, given) EXCEPT
                 !.retried = call[c].retried,
                 !.totalAmount = call[c].totalAmount] ]

Goes(r) == [ r |-> r, ev |-> NoEvent ]

\* the catch block up to its first await: the TypeError of error.message on
\* a value without message ends the handler with no response; otherwise the
\* compensation starts when itemsForRollback is not empty and the message
\* does not contain "stock"; otherwise the response is sent
EnterCatch(c, r, e) ==
    IF ~HasMessage(e.kind)
    THEN Ends(c, 0, r.items, e, r.given)
    ELSE IF Len(r.itemsForRollback) > 0 /\ ~LowerIncludesStock(e.kind)
    THEN Goes([r EXCEPT !.error = e, !.pc = "rollback", !.rb = 1, !.stale = {}])
    ELSE Ends(c, ErrorStatus(e.kind), r.items, e, r.given)

\* one run of the transaction callback up to the end of its reads: it throws
\* on the snapshot, or it holds its writes until the commit
TxBegin(c, r, view) ==
    LET t == RunTx(view, r.items)
    IN  IF t.err.kind # NULL
        THEN EnterCatch(c, [r EXCEPT !.itemsForRollback = @ \o t.pushed], t.err)
        ELSE IF IsNaN(TotalAmount(r.totalAmount))
        THEN EnterCatch(c, [r EXCEPT !.itemsForRollback = @ \o t.pushed],
                        Err("amount"))
        ELSE Goes([r EXCEPT !.pc = "commit", !.stale = {}])

\* a request arrives: the shape checks, then the first run of the callback
CallStart(c, items, customerDetails, totalAmount) ==
    LET step == IF ~db THEN Ends(c, 500, items, NoErr, ZeroQty)
                ELSE IF ~customerDetails \/ Len(items) = 0
                THEN Ends(c, 400, items, NoErr, ZeroQty)
                ELSE TxBegin(c, [call[c] EXCEPT !.items = items,
                                                !.totalAmount = totalAmount],
                             stock)
    IN  /\ Arrives(call, c)
        /\ requests' = requests + 1
        /\ call' = [call EXCEPT ![c] = step.r]
        /\ sent' = [step.ev EXCEPT !.customerDetails = customerDetails,
                                   !.totalAmount = totalAmount]
        /\ UNCHANGED << db, stock, orders, hook, shipping, history >>

\* withTransaction runs the callback again after a write conflict
TxRetry(c) ==
    LET step == TxBegin(c, call[c], stock)
    IN  /\ call[c].pc = "tx"
        /\ call' = [call EXCEPT ![c] = step.r]
        /\ sent' = step.ev
        /\ UNCHANGED << db, stock, orders, hook, requests, shipping, history >>

RECURSIVE FirstStale(_, _, _)
\* the first item whose conditional update meets a write conflict
FirstStale(items, stale, i) ==
    IF i > Len(items) THEN 0
    ELSE IF items[i].id \in stale THEN i
    ELSE FirstStale(items, stale, i + 1)

\* the write conflict: the items updated before it are on itemsForRollback,
\* and their updates are discarded with the transaction
TxAbortConflict(c) ==
    /\ call[c].pc = "commit"
    /\ TxConflict(call[c])
    /\ call' = [call EXCEPT ![c] =
          [@ EXCEPT !.pc = "tx", !.stale = {}, !.retried = TRUE,
                    !.itemsForRollback =
                        @ \o SubSeq(call[c].items, 1,
                                    FirstStale(call[c].items, call[c].stale, 1) - 1)]]
    /\ sent' = NoEvent
    /\ UNCHANGED << db, stock, orders, hook, requests, shipping, history >>

\* the decrements of a committed checkout transaction applied to the store
Decremented(view, items) ==
    [p \in DOMAIN view |-> view[p] - SumQty(items, p)]

\* the transaction commits: the decrements and the order insert take effect
Committed(c) ==
    /\ call[c].pc = "commit"
    /\ ~TxConflict(call[c])
    /\ stock' = Decremented(stock, call[c].items)
    /\ hook' = TouchHooks(hook, 0, ItemIds(call[c].items), {})
    /\ UNCHANGED << db, requests, shipping, history >>

\* the locals of request c when the callback has run to its end
AfterCallback(c) ==
    [call[c] EXCEPT !.itemsForRollback = @ \o call[c].items]

\* the transaction commits, preference.create answers with a checkout
\* session, the session id is stored on the order and the 201 is sent
CheckoutSession(c) ==
    /\ Committed(c)
    /\ orders' = (c :> [NewOrder(call[c].items, call[c].totalAmount) EXCEPT
                          !.mercadoPagoPreferenceId = "pref"]) @@ orders
    /\ call' = [TouchCalls(call, c, ItemIds(call[c].items)) EXCEPT ![c] = DoneCall]
    /\ sent' = [CallEvent(c, 201, call[c].items, NoErr, ZeroQty) EXCEPT
                    !.retried = call[c].retried,
                    !.totalAmount = call[c].totalAmount,
                    !.mercadoPagoUrl = "init_point"]

\* the transaction commits, then preference.create fails with a gateway
\* error, or the update that stores the session id fails ("store")
CheckoutFails(c, e) ==
    LET step == EnterCatch(c, AfterCallback(c), Err(e))
    IN  /\ Committed(c)
        /\ orders' = (c :> NewOrder(call[c].items, call[c].totalAmount)) @@ orders
        /\ call' = [TouchCalls(call, c, ItemIds(call[c].items)) EXCEPT ![c] = step.r]
        /\ sent' = step.ev

\* insertOne (or the commit) fails after every item was decremented in the
\* transaction: the transaction is aborted and the error reaches the catch
TxInsertFails(c) ==
    LET step == EnterCatch(c, AfterCallback(c), Err("store"))
    IN  /\ call[c].pc = "commit"
        /\ ~TxConflict(call[c])
        /\ call' = [call EXCEPT ![c] = step.r]
        /\ sent' = step.ev
        /\ UNCHANGED << db, stock, orders, hook, requests, shipping, history >>

\* a compensation loop without the try around its $inc: the first failure
\* leaves the catch block, and the handler ends without a response
RollbackStops(c, ok) ==
    LET r == call[c]
        item == r.itemsForRollback[r.rb]
        hit == ok /\ Exists(stock, item.id)
        given == IF hit THEN [r.given EXCEPT ![item.id] = @ + item.quantity]
                 ELSE r.given
        last == r.rb = Len(r.itemsForRollback)
    IN  /\ r.pc = "rollback"
        /\ stock' = IF hit THEN Release(stock, << item >>) ELSE stock
        /\ call' = [TouchCalls(call, c, IF hit THEN {item.id} ELSE {}) EXCEPT ![c] =
              IF last \/ ~ok THEN DoneCall
              ELSE [r EXCEPT !.rb = @ + 1, !.given = given]]
        /\ sent' = IF ~ok THEN CallEvent(c, 0, r.items, r.error, given)
                   ELSE IF last
                   THEN CallEvent(c, ErrorStatus(r.error.kind), r.items, r.error, given)
                   ELSE NoEvent
        /\ hook' = TouchHooks(hook, 0, IF hit THEN {item.id} ELSE {}, {})
        /\ released' = IF hit THEN released \cup {item.id} ELSE released
        /\ UNCHANGED << db, orders, requests, shipping, hookRel, everPaid, manual >>

\* one turn of the compensation loop: the $inc of one entry of
\* itemsForRollback, or its failure (logged, not retried); after the last
\* entry the response is sent
Rollback(c, ok) ==
    LET r == call[c]
        item == r.itemsForRollback[r.rb]
        hit == ok /\ Exists(stock, item.id)
        given == IF hit THEN [r.given EXCEPT ![item.id] = @ + item.quantity]
                 ELSE r.given
        last == r.rb = Len(r.itemsForRollback)
    IN  /\ r.pc = "rollback"
        /\ stock' = IF hit THEN Release(stock, << item >>) ELSE stock
        /\ call' = [TouchCalls(call, c, IF hit THEN {item.id} ELSE {}) EXCEPT ![c] =
              IF last THEN DoneCall
              ELSE [r EXCEPT !.rb = @ + 1, !.given = given]]
        /\ sent' = IF last
                   THEN [CallEvent(c, ErrorStatus(r.error.kind), r.items, r.error,
                                   given) EXCEPT !.retried = r.retried,
                                                 !.totalAmount = r.totalAmount]
                   ELSE NoEvent
        /\ hook' = TouchHooks(hook, 0, IF hit THEN {item.id} ELSE {}, {})
        /\ released' = IF hit THEN released \cup {item.id} ELSE released
        /\ UNCHANGED << db, orders, requests, shipping, hookRel, everPaid, manual >>

\* ------------------------------------------------ POST /api/mercadopago-webhook
\* the gateway holds a payment for order o only when the checkout url of o
\* was handed out (the 201 of createOrder)
SessionExists(o) ==
    o \in DOMAIN orders /\ orders[o].mercadoPagoPreferenceId # NULL

\* an order id taken from the request when it carries one
ResolveQueryFirst(externalReference, orderId) ==
    IF orderId # 0 THEN orderId ELSE externalReference

\* orderObjectId: the order a notification is about, from the payment's
\* external reference and the orderId of the request's query
ResolveOrder(externalReference, orderId) == externalReference

\* a findOne that returns some order when no order has the id
FindSomeOrder(o) ==
    IF o \in DOMAIN orders THEN orders[o]
    ELSE IF DOMAIN orders # {} THEN orders[CHOOSE x \in DOMAIN orders : TRUE]
    ELSE NoOrder

\* the order findOne returns
FindOrder(o) == IF o \in DOMAIN orders THEN orders[o] ELSE NoOrder

\* payment.get answered with status and external reference ref, and the
\* order was read: the callback throws (no order), ends without a write, or
\* holds its writes until the commit
HookRead(h, paymentId, status, ref) ==
    LET order == FindOrder(ref)
    IN  IF order.status = "none" THEN [DoneHook EXCEPT !.status = "noorder"]
        ELSE IF ~WebhookBody(order, status, paymentId).wrote
        THEN [DoneHook EXCEPT !.status = "nowrite"]
        ELSE [h EXCEPT !.pc = "commit", !.paymentId = paymentId,
                       !.status = status, !.ref = ref, !.order = order,
                       !.staleProducts = {}, !.staleOrder = FALSE]

\* the event of a read that leaves notification n in h, and the locals the
\* handler is left with
HookSent(n, h) == IF h.pc = "done" THEN HookEvent(n, h.status) ELSE NoEvent

HookLeft(h) == IF h.pc = "done" THEN DoneHook ELSE h

\* guards that look at the topic only
HookGuardTopic(topic, bodyType, paymentId, connected) ==
    IF ~(topic = "payment" \/ bodyType = "payment") THEN "topic"
    ELSE IF ~connected THEN "nodb"
    ELSE "get"

\* the guards before the transaction: the notification is not about a
\* payment, it carries no payment id, the store handle is missing, or the
\* handler goes on to payment.get
HookGuard(topic, bodyType, paymentId, connected) ==
    IF ~(topic = "payment" \/ bodyType = "payment") THEN "topic"
    ELSE IF paymentId = NULL THEN "noid"
    ELSE IF ~connected THEN "nodb"
    ELSE "get"

\* the response of a notification for which payment.get was called
Got(ev, paymentId, status) ==
    IF ev.from = "hook"
    THEN [ev EXCEPT !.paymentGet = TRUE, !.topic = "payment",
                    !.paymentId = paymentId, !.paymentStatus = status]
    ELSE ev

\* a notification that is acknowledged at the guards
HookIgnored(n, topic, bodyType, paymentId) ==
    LET why == HookGuard(topic, bodyType, paymentId, db)
    IN  /\ Arrives(hook, n)
        /\ why # "get"
        /\ requests' = requests + 1
        /\ hook' = [hook EXCEPT ![n] = DoneHook]
        /\ sent' = [HookEvent(n, why) EXCEPT !.topic = topic, !.bodyType = bodyType,
                                             !.paymentId = paymentId]
        /\ UNCHANGED << db, stock, orders, call, shipping, history >>

\* payment.get fails: the callback throws, the transaction is aborted and
\* the notification is acknowledged
HookGetFails(n, topic, bodyType, paymentId) ==
    /\ Arrives(hook, n)
    /\ HookGuard(topic, bodyType, paymentId, db) = "get"
    /\ requests' = requests + 1
    /\ hook' = [hook EXCEPT ![n] = DoneHook]
    /\ sent' = [Got(HookEvent(n, "getfails"), paymentId, NULL) EXCEPT
                    !.topic = topic, !.bodyType = bodyType]
    /\ UNCHANGED << db, stock, orders, call, shipping, history >>

\* the payment has no external reference: the callback throws, the
\* transaction is aborted and the notification is acknowledged
HookNoReference(n, paymentId, status, orderId) ==
    /\ Arrives(hook, n)
    /\ db
    /\ requests' = requests + 1
    /\ hook' = [hook EXCEPT ![n] = DoneHook]
    /\ sent' = [Got(HookEvent(n, "noref"), paymentId, status) EXCEPT
                    !.orderId = orderId]
    /\ UNCHANGED << db, stock, orders, call, shipping, history >>

\* a payment notification arrives with orderId in its query, payment.get
\* answers with status and the external reference ref, and the order is read
HookStart(n, paymentId, status, ref, orderId) ==
    LET h == HookRead([hook[n] EXCEPT !.externalReference = ref, !.orderId = orderId],
                      paymentId, status, ResolveOrder(ref, orderId))
    IN  /\ Arrives(hook, n)
        /\ HookGuard("payment", NULL, paymentId, db) = "get"
        /\ ref \in DOMAIN orders => SessionExists(ref)
        /\ requests' = requests + 1
        /\ hook' = [hook EXCEPT ![n] = HookLeft(h)]
        /\ sent' = [Got(HookSent(n, h), paymentId, status) EXCEPT
                        !.externalReference = ref, !.orderId = orderId]
    /\ UNCHANGED << db, stock, orders, call, shipping, history >>

\* the write conflict: withTransaction runs the callback again, payment.get
\* is asked again and the order is read again
HookRetry(n) ==
    /\ hook[n].pc = "commit"
    /\ HookConflict(hook[n])
    /\ hook' = [hook EXCEPT ![n] =
          HookLeft(HookRead(@, @.paymentId, @.status,
                            ResolveOrder(@.externalReference, @.orderId)))]
    /\ sent' = [Got(HookSent(n, HookRead(hook[n], hook[n].paymentId, hook[n].status,
                                         ResolveOrder(hook[n].externalReference,
                                                      hook[n].orderId))),
                    hook[n].paymentId, hook[n].status) EXCEPT
                    !.externalReference = hook[n].externalReference,
                    !.orderId = hook[n].orderId]
    /\ UNCHANGED << db, stock, orders, call, requests, shipping, history >>

\* the $set of the order update, applied to the stored document
ApplySet(doc, written, status) ==
    [doc EXCEPT !.status = written.status,
                !.paymentStatus = written.paymentStatus,
                !.mercadoPagoPaymentId = written.mercadoPagoPaymentId,
                !.paidAt = IF status = "approved" THEN written.paidAt ELSE @]

\* the transaction commits: the releases and the order update take effect,
\* and the 200 is sent
HookCommit(n) ==
    LET h == hook[n]
        b == WebhookBody(h.order, h.status, h.paymentId)
        ids == { id \in ItemIds(b.release) : Exists(stock, id) }
    IN  /\ h.pc = "commit"
        /\ ~HookConflict(h)
        /\ stock' = Release(stock, b.release)
        /\ orders' = [orders EXCEPT ![h.ref] = ApplySet(@, b.order, h.status)]
        /\ hook' = [TouchHooks(hook, n, ids, {h.ref}) EXCEPT ![n] = DoneHook]
        /\ call' = TouchCalls(call, 0, ids)
        /\ sent' = [Got(HookEvent(n, "committed"), h.paymentId, h.status) EXCEPT
                        !.externalReference = h.externalReference,
                        !.orderId = h.orderId]
        /\ hookRel' = IF b.release # << >>
                      THEN [hookRel EXCEPT ![h.ref] = @ + 1] ELSE hookRel
        /\ released' = released \cup ids
        /\ everPaid' = IF b.order.status = "paid"
                       THEN everPaid \cup {h.ref} ELSE everPaid
        /\ UNCHANGED << db, requests, shipping, manual >>

\* the order update fails after releases that were issued outside the
\* transaction: the releases stay
HookFailsAfterRelease(n) ==
    /\ hook[n].pc = "commit"
    /\ hook' = [hook EXCEPT ![n] = DoneHook]
    /\ stock' = Release(stock, WebhookBody(hook[n].order, hook[n].status,
                                           hook[n].paymentId).release)
    /\ sent' = Got(HookEvent(n, "aborted"), hook[n].paymentId, hook[n].status)
    /\ UNCHANGED << db, orders, call, requests, shipping, history >>

\* an update or the commit fails: the transaction is aborted, the error is
\* logged and the 200 is sent
HookStoreFails(n) ==
    /\ hook[n].pc = "commit"
    /\ hook' = [hook EXCEPT ![n] = DoneHook]
    /\ sent' = Got(HookEvent(n, "aborted"), hook[n].paymentId, hook[n].status)
    /\ UNCHANGED << db, stock, orders, call, requests, shipping, history >>

\* --------------------------------- PUT /api/dispatcher/product/:productId/stock
\* the manual stock update: rejected unless newStock is a non-negative
\* integer, otherwise an upsert of the record
SetStock(p, newStock) ==
    /\ requests < MaxRequests
    /\ db
    /\ requests' = requests + 1
    /\ sent' = NoEvent
    /\ IF newStock < 0
       THEN UNCHANGED << stock, call, hook, manual >>
       ELSE /\ stock' = (p :> newStock) @@ stock
            /\ call' = TouchCalls(call, 0, {p})
            /\ hook' = TouchHooks(hook, 0, {p}, {})
            /\ manual' = manual \cup {p}
    /\ UNCHANGED << db, orders, shipping, hookRel, everPaid, released >>

\* ------------------------------------ PUT /api/dispatcher/order/:orderId/dispatch
\* a dispatch or unship request arrives and is served in the first free slot
ShipArrives(s) ==
    /\ shipping[s].pc = "idle"
    /\ \A j \in ShipIds : j < s => shipping[j].pc # "idle"

\* the checks before the update without the check of the status
ShipFindsOnly(orderId, required) ==
    IF ~db THEN 500
    ELSE IF orderId = 0 THEN 400
    ELSE IF orderId \notin DOMAIN orders THEN 404
    ELSE 0

\* the checks before the update: the status of the refusal, 0 when the
\* order was found in the status the operation requires
ShipRefusal(orderId, required) ==
    IF ~db THEN 500
    ELSE IF orderId = 0 THEN 400
    ELSE IF orderId \notin DOMAIN orders THEN 404
    ELSE IF orders[orderId].status # required THEN 400
    ELSE 0

\* the status of the response after the updateOne
ShipStatus(modified, outcome) ==
    IF outcome = "updatefails" THEN 500
    ELSE IF ~modified THEN 404
    ELSE IF outcome = "lookupfails" THEN 500
    ELSE 200

\* updateData['shippingDetails.trackingNumber']: an empty tracking number
\* is stored as null
StoredTracking(trackingNumber) ==
    IF trackingNumber = "" THEN NULL ELSE trackingNumber

\* updateData of dispatch applied to the order
DispatchSet(order, trackingNumber) ==
    [order EXCEPT !.status = "shipped", !.shippedAt = "stamped",
                  !.trackingNumber = StoredTracking(trackingNumber)]

\* an updateOne of dispatch whose filter is the _id alone
DispatchById(order) == TRUE

\* the filter of the updateOne of dispatch
DispatchFilter(order) == order.status = "paid"

\* dispatch: the request arrives, the order is looked up and checked
Dispatch(s, orderId, trackingNumber) ==
    LET refusal == ShipRefusal(orderId, "paid")
    IN  /\ ShipArrives(s)
        /\ shipping' = [shipping EXCEPT ![s] =
              IF refusal # 0 THEN IdleShip
              ELSE [ pc |-> "update", op |-> "dispatch", orderId |-> orderId,
                     trackingNumber |-> trackingNumber ]]
        /\ sent' = IF refusal # 0
                   THEN ShipEvent(s, "dispatch", orderId, NULL, refusal)
                   ELSE NoEvent
        /\ UNCHANGED << db, stock, orders, call, hook, requests, history >>

\* dispatch: the conditional updateOne with its $set, the lookup of the
\* updated order and the response
DispatchUpdate(s, outcome) ==
    LET r == shipping[s]
        o == r.orderId
        modified == outcome # "updatefails" /\ DispatchFilter(orders[o])
    IN  /\ r.pc = "update"
        /\ r.op = "dispatch"
        /\ orders' = IF modified
                     THEN [orders EXCEPT ![o] = DispatchSet(@, r.trackingNumber)]
                     ELSE orders
        /\ hook' = IF modified THEN TouchHooks(hook, 0, {}, {o}) ELSE hook
        /\ shipping' = [shipping EXCEPT ![s] = IdleShip]
        /\ sent' = ShipEvent(s, "dispatch", o, r.trackingNumber,
                             ShipStatus(modified, outcome))
        /\ UNCHANGED << db, stock, call, requests, history >>

\* -------------------------------------- PUT /api/dispatcher/order/:orderId/unship
\* an unship that takes the order back to what it was before its payment
UnshipClearsPaidAt(order) ==
    [order EXCEPT !.status = "paid", !.shippedAt = NULL, !.trackingNumber = NULL,
                  !.paidAt = NULL]

\* updateData of unship applied to the order
UnshipSet(order) ==
    [order EXCEPT !.status = "paid", !.shippedAt = NULL, !.trackingNumber = NULL]

\* the filter of the updateOne of unship
UnshipFilter(order) == order.status = "shipped"

\* unship: the request arrives, the order is looked up and checked
Unship(s, orderId) ==
    LET refusal == ShipRefusal(orderId, "shipped")
    IN  /\ ShipArrives(s)
        /\ shipping' = [shipping EXCEPT ![s] =
              IF refusal # 0 THEN IdleShip
              ELSE [ pc |-> "update", op |-> "unship", orderId |-> orderId,
                     trackingNumber |-> NULL ]]
        /\ sent' = IF refusal # 0
                   THEN ShipEvent(s, "unship", orderId, NULL, refusal)
                   ELSE NoEvent
        /\ UNCHANGED << db, stock, orders, call, hook, requests, history >>

\* unship: the conditional updateOne with its $set, the lookup of the
\* updated order and the response
UnshipUpdate(s, outcome) ==
    LET r == shipping[s]
        o == r.orderId
        modified == outcome # "updatefails" /\ UnshipFilter(orders[o])
    IN  /\ r.pc = "update"
        /\ r.op = "unship"
        /\ orders' = IF modified
                     THEN [orders EXCEPT ![o] = UnshipSet(@)]
                     ELSE orders
        /\ hook' = IF modified THEN TouchHooks(hook, 0, {}, {o}) ELSE hook
        /\ shipping' = [shipping EXCEPT ![s] = IdleShip]
        /\ sent' = ShipEvent(s, "unship", o, NULL, ShipStatus(modified, outcome))
        /\ UNCHANGED << db, stock, call, requests, history >>

\* ----------------------------------------------------------- specifications
\* Checkout: the checkout requests with every cart and every failure
NextCheckout ==
    \/ ConnectDB
    \/ \E c \in CallIds, body \in ValidBodies :
          CallStart(c, body.items, body.customerDetails, body.totalAmount)
    \/ \E c \in CallIds : TxRetry(c)
    \/ \E c \in CallIds : TxAbortConflict(c)
    \/ \E c \in CallIds : TxInsertFails(c)
    \/ \E c \in CallIds : CheckoutSession(c)
    \/ \E c \in CallIds, e \in GatewayErrors \cup {"store"} : CheckoutFails(c, e)
    \/ \E c \in CallIds : Rollback(c, TRUE)

SpecCheckout == Init /\ [][NextCheckout]_vars

\* Input: the checkout requests with every body, well formed or not, the
\* gateway failing with a plain error or not at all, and each release of
\* the compensation failing or not
NextInput ==
    \/ ConnectDB
    \/ \E c \in CallIds, body \in Bodies :
          CallStart(c, body.items, body.customerDetails, body.totalAmount)
    \/ \E c \in CallIds : TxRetry(c)
    \/ \E c \in CallIds : TxAbortConflict(c)
    \/ \E c \in CallIds : CheckoutSession(c)
    \/ \E c \in CallIds : CheckoutFails(c, "gw_plain")
    \/ \E c \in CallIds, ok \in BOOLEAN : Rollback(c, ok)

SpecInput == Init /\ [][NextInput]_vars

\* the steps of the runs that follow orders through their notifications and
\* the manual stock updates, the gateway reporting the statuses of the set
\* given
NextWith(statuses) ==
    \/ ConnectDB
    \/ \E c \in CallIds, body \in PlainBodies :
          CallStart(c, body.items, body.customerDetails, body.totalAmount)
    \/ \E c \in CallIds : TxRetry(c)
    \/ \E c \in CallIds : TxAbortConflict(c)
    \/ \E c \in CallIds : CheckoutSession(c)
    \/ \E c \in CallIds, e \in { "gw_plain", "gw_stock" } : CheckoutFails(c, e)
    \/ \E c \in CallIds : Rollback(c, TRUE)
    \/ \E n \in NotifIds, topic \in Topics, paymentId \in DataIds :
          HookIgnored(n, topic, NULL, paymentId)
    \/ \E n \in NotifIds, paymentId \in PaymentIds :
          HookGetFails(n, "payment", NULL, paymentId)
    \/ \E n \in NotifIds, paymentId \in PaymentIds :
          HookNoReference(n, paymentId, "approved", 0)
    \/ \E n \in NotifIds, paymentId \in PaymentIds, status \in statuses,
          ref \in CallIds, orderId \in QueryOrderIds :
          HookStart(n, paymentId, status, ref, orderId)
    \/ \E n \in NotifIds : HookRetry(n)
    \/ \E n \in NotifIds : HookCommit(n)
    \/ \E n \in NotifIds : HookStoreFails(n)
    \/ \E p \in SetIds, newStock \in StockInputs : SetStock(p, newStock)

NextNotify == NextWith(RunStatuses)

\* Notify: orders of plain carts, followed through their notifications and
\* the manual stock updates
SpecNotify == Init /\ [][NextNotify]_vars

\* the checkout request of the runs that follow one order, and its cart
ShipCall == 1
ShipBodies == { Body(<< Item("A", 1) >>, TRUE, "10") }

\* the order ids the payments of the runs of Ack refer to: the order of the
\* checkout request, and an id no order has
AckRefs == { ShipCall, ShipCall + 1 }

\* Ack: the order of one checkout request and notifications of every shape,
\* about payments of every status, with and without an external reference
NextAck ==
    \/ ConnectDB
    \/ \E body \in ShipBodies :
          CallStart(ShipCall, body.items, body.customerDetails, body.totalAmount)
    \/ CheckoutSession(ShipCall)
    \/ \E n \in NotifIds, topic \in Topics, bodyType \in BodyTypes,
          paymentId \in DataIds :
          HookIgnored(n, topic, bodyType, paymentId)
    \/ \E n \in NotifIds, topic \in Topics, bodyType \in BodyTypes,
          paymentId \in DataIds :
          HookGetFails(n, topic, bodyType, paymentId)
    \/ \E n \in NotifIds, paymentId \in PaymentIds, status \in MPStatuses,
          orderId \in QueryOrderIds :
          HookNoReference(n, paymentId, status, orderId)
    \/ \E n \in NotifIds, paymentId \in DataIds, status \in MPStatuses,
          ref \in AckRefs, orderId \in QueryOrderIds :
          HookStart(n, paymentId, status, ref, orderId)
    \/ \E n \in NotifIds : HookRetry(n)
    \/ \E n \in NotifIds : HookCommit(n)
    \/ \E n \in NotifIds : HookStoreFails(n)

SpecAck == Init /\ [][NextAck]_vars

\* the products collections a release is applied to: every product has a
\* record with a stock up to InitStock, or none
Views ==
    UNION { [ps -> 0..InitStock] : ps \in SUBSET AllIds }

\* the quantities released
ReleaseQuantities == { 1, 2 }

InitRelease ==
    /\ db = TRUE
    /\ stock \in Views
    /\ orders = << >>
    /\ call = [c \in CallIds |-> IdleCall]
    /\ hook = [n \in NotifIds |-> IdleHook]
    /\ sent = NoEvent
    /\ requests = 0
    /\ shipping = [s \in ShipIds |-> IdleShip]
    /\ hookRel = [o \in CallIds |-> 0]
    /\ everPaid = {}
    /\ manual = {}
    /\ released = {}

\* the release of one line item, as the compensation and the notification
\* callback issue it: updateOne({ productId }, { $inc: { stock: quantity } })
ReleaseIssued(productId, quantity) ==
    /\ requests < MaxRequests
    /\ requests' = requests + 1
    /\ stock' = Release(stock, << Item(productId, quantity) >>)
    /\ sent' = [NoEvent EXCEPT !.from = "release",
                               !.items = << Item(productId, quantity) >>]
    /\ UNCHANGED << db, orders, call, hook, shipping, history >>

NextRelease ==
    \E productId \in AllIds, quantity \in ReleaseQuantities :
        ReleaseIssued(productId, quantity)

\* Release: the release of a line item applied to every products collection
SpecRelease == InitRelease /\ [][NextRelease]_vars

\* the statuses the gateway reports in the runs that dispatch orders
ShipStatuses == { "approved", "rejected" }

\* Ship: the order of one checkout request, followed through its
\* notifications, its dispatch and the return of its dispatch
NextShip ==
    \/ ConnectDB
    \/ \E body \in ShipBodies :
          CallStart(ShipCall, body.items, body.customerDetails, body.totalAmount)
    \/ CheckoutSession(ShipCall)
    \/ \E n \in NotifIds, paymentId \in PaymentIds, status \in ShipStatuses :
          HookStart(n, paymentId, status, ShipCall, 0)
    \/ \E n \in NotifIds : HookRetry(n)
    \/ \E n \in NotifIds : HookCommit(n)
    \/ \E s \in ShipIds, orderId \in ShipOrderIds, trackingNumber \in TrackingInputs :
          Dispatch(s, orderId, trackingNumber)
    \/ \E s \in ShipIds, outcome \in ShipOutcomes : DispatchUpdate(s, outcome)
    \/ \E s \in ShipIds, orderId \in ShipOrderIds : Unship(s, orderId)
    \/ \E s \in ShipIds, outcome \in ShipOutcomes : UnshipUpdate(s, outcome)

SpecShip == Init /\ [][NextShip]_vars

\* the gateway reports failing statuses only
FailingRun == { "rejected", "cancelled" }

NextFailing == NextWith(FailingRun)

\* Failing: the runs of Notify in which every notification reports a failing
\* status
SpecFailing == Init /\ [][NextFailing]_vars

\* ------------------------------------------------------------------ claims
RECURSIVE ReservedBy(_, _)
\* the quantity of product p in the orders ids, the orders whose reservation
\* committed
ReservedBy(ids, p) ==
    IF ids = {} THEN 0
    ELSE LET o == CHOOSE x \in ids : TRUE
         IN  SumQty(orders[o].items, p) + ReservedBy(ids \ {o}, p)

Reserved(p) == ReservedBy(DOMAIN orders, p)

\* C1: no overselling. For every product that started with InitStock, that
\* received no release and no manual stock set, the quantities of the
\* checkout calls whose reservation committed sum to at most InitStock, in
\* every state of every interleaving of the calls.
NoOverselling ==
    \A p \in Products :
        p \notin released \cup manual => Reserved(p) <= InitStock

\* C1 witness: a call lost a write conflict on a product to a concurrent
\* call, whose committed reservation took the whole stock of the product
OversellingAverted ==
    \E c \in CallIds, p \in Products :
        /\ call[c].pc = "tx"
        /\ p \in ItemIds(call[c].items)
        /\ p \notin released \cup manual
        /\ Reserved(p) = InitStock

\* the event of a createOrder call that failed after its reservation
\* committed
FailedAfterCommit(ev) ==
    /\ ev.from = "call"
    /\ ev.id \in DOMAIN orders
    /\ ev.status # 201

\* C2: every order that never reaches paid has its stock given back exactly
\* once. When createOrder ends in failure after the reservation committed,
\* what it gave back is what the order reserved, and the notifications of an
\* order that was never paid release its stock at most once.
ReleasedExactlyOnce ==
    /\ FailedAfterCommit(sent) =>
            \A p \in AllIds : sent.given[p] = SumQty(sent.items, p)
    /\ \A o \in DOMAIN orders : o \notin everPaid => hookRel[o] <= 1

\* the order document after the callback ran on it: the $set of its write
\* when it issued one
Handled(order, status, paymentId) ==
    LET b == WebhookBody(order, status, paymentId)
    IN  IF b.wrote THEN ApplySet(order, b.order, status) ELSE order

\* handling the notification (status, paymentId) of the order a second time,
\* right after a first handling: the second run of the callback
SecondHandling(order, status, paymentId) ==
    WebhookBody(Handled(order, status, paymentId), status, paymentId)

\* the second handling leaves the order and the stock as the first left them
SameAsOnce(order, status, paymentId) ==
    LET once == Handled(order, status, paymentId)
        left == Release(stock, WebhookBody(order, status, paymentId).release)
        b == SecondHandling(order, status, paymentId)
    IN  /\ Handled(once, status, paymentId) = once
        /\ Release(left, b.release) = left

\* C3 as stated: for every order and every status the gateway may report,
\* handling the notification twice in sequence leaves the order and the
\* stock as handling it once, and the second handling performs no order
\* write and no stock release.
SecondHandlingSilent ==
    \A o \in DOMAIN orders, status \in MPStatuses, paymentId \in PaymentIds :
        /\ SameAsOnce(orders[o], status, paymentId)
        /\ ~SecondHandling(orders[o], status, paymentId).wrote
        /\ SecondHandling(orders[o], status, paymentId).release = << >>

\* C3 amended: handling twice leaves the order and the stock as handling
\* once and the second handling releases no stock; it performs no order
\* write when the status is one the handler maps to an order status, and
\* for any other status it writes the payment details again.
SecondHandlingIdempotent ==
    \A o \in DOMAIN orders, status \in MPStatuses, paymentId \in PaymentIds :
        /\ SameAsOnce(orders[o], status, paymentId)
        /\ SecondHandling(orders[o], status, paymentId).release = << >>
        /\ SecondHandling(orders[o], status, paymentId).wrote
               <=> TargetStatus(status) = NULL

\* C3 witness: a notification was handled a second time with the status the
\* order already mirrors, and ended at the guard without a write
HandledTwice ==
    /\ sent.from = "hook"
    /\ sent.outcome = "nowrite"
    /\ \E o \in DOMAIN orders : orders[o].status = "failed" /\ hookRel[o] = 1

\* C4: when all the notifications of an order report a failing status,
\* however their handlings interleave, the stock of the order is released at
\* most once, and the step that releases it raises the stock of each product
\* by exactly the quantity the order holds of it.
ReleasedAtMostOnce ==
    [][ \A o \in DOMAIN orders :
          /\ hookRel'[o] <= 1
          /\ hookRel'[o] # hookRel[o] =>
                /\ orders'[o].status = "failed"
                /\ \A p \in DOMAIN stock :
                      stock'[p] = stock[p] + SumQty(orders[o].items, p) ]_vars

\* C4 witness: two notifications of one order were in flight together, one
\* committed its release and the other lost the write conflict
ConcurrentFailing ==
    \E n \in NotifIds :
        /\ hook[n].pc = "commit"
        /\ hook[n].staleOrder
        /\ TargetStatus(hook[n].status) = "failed"
        /\ hookRel[hook[n].ref] = 1

\* notification n's handler ends in this step
HookEnds(n) == hook[n].pc # "done" /\ hook'[n].pc = "done"

\* C5: the notification handler ends every request by answering 200,
\* whatever the outcome inside: not a payment topic, no payment id, no store
\* handle, the gateway lookup failing, no external reference, an unknown
\* order, a store write failing.
AlwaysAnswers200 ==
    [][ \A n \in NotifIds :
          HookEnds(n) => sent'.from = "hook" /\ sent'.id = n /\ sent'.status = 200 ]_vars

\* C5 witness: a notification whose store write failed was answered
AnsweredAfterFailure ==
    sent.from = "hook" /\ sent.outcome = "aborted" /\ sent.status = 200

\* the error of a reservation that failed for lack of stock
StockFailure(e) == e.kind \in { "insufficient", "noupdate" }

\* C6: when the reservation of a line item fails for insufficient stock,
\* createOrder answers 400 with the stock error that names the product, the
\* available and the requested quantity, it gave nothing back, and no order
\* was inserted; also when the cart names one product in several lines.
AllOrNothing ==
    sent.from = "call" /\ StockFailure(sent.error) =>
        /\ sent.status = 400
        /\ sent.errorType = "STOCK_ERROR"
        /\ sent.error.kind = "insufficient"
        /\ sent.error.id \in ItemIds(sent.items)
        /\ sent.error.requested > sent.error.available
        /\ sent.given = ZeroQty
        /\ sent.id \notin DOMAIN orders

\* every line of the cart asks for a positive quantity
PositiveCart(items) == \A i \in 1..Len(items) : items[i].quantity > 0

\* C7: whenever the reservation committed and the gateway step then failed,
\* whatever the error, createOrder answers 500 after it gave back, for every
\* product, exactly the quantity the cart reserved of it.
CompensatesEveryFailure ==
    ( /\ FailedAfterCommit(sent)
      /\ sent.error.kind \in GatewayErrors \cup { "store" }
      /\ PositiveCart(sent.items) )
    => /\ sent.status = 500
       /\ \A p \in AllIds : sent.given[p] = SumQty(sent.items, p)

\* C8: the stock of every product is a non-negative integer in every state
StockNonNegative == \A p \in DOMAIN stock : stock[p] \in Nat

\* C9: when the handler commits a notification with a failing status for an
\* order in pending_payment, the order becomes failed and the stock of each
\* product rises by exactly the quantity the order holds of it.
FailedRestoresStock ==
    [][ \A n \in NotifIds :
          ( /\ HookEnds(n)
            /\ sent'.outcome = "committed"
            /\ hook[n].status \in FailingStatuses
            /\ orders[hook[n].ref].status = "pending_payment" )
          => /\ orders'[hook[n].ref].status = "failed"
             /\ \A p \in DOMAIN stock :
                   stock'[p] = stock[p] + SumQty(orders[hook[n].ref].items, p) ]_vars

\* C9 witness: the rejected payment of an order of two products was
\* committed, and both products are back at their initial stock
RejectedRestored ==
    /\ sent.from = "hook" /\ sent.outcome = "committed"
    /\ \E o \in DOMAIN orders :
          /\ orders[o].status = "failed"
          /\ orders[o].paymentStatus = "rejected"
          /\ Len(orders[o].items) = 2
          /\ hookRel[o] = 1
    /\ \A p \in Products : stock[p] = InitStock

\* notification n's handler takes this step: it arrives, it ends, or it
\* runs its callback again
HookStep(n) ==
    \/ hook'[n].pc # hook[n].pc
    \/ hook[n].pc = "commit" /\ HookConflict(hook[n]) /\ ~HookConflict(hook'[n])

\* C10: a step of the notification handler changes the stock only when the
\* target status is failed and the order read in its transaction is in
\* pending_payment; for every order and every status the callback releases
\* nothing in any other case.
ReleaseOnlyFailedPending ==
    [][ /\ \A n \in NotifIds :
              HookStep(n) /\ stock' # stock =>
                  /\ TargetStatus(hook[n].status) = "failed"
                  /\ hook[n].order.status = "pending_payment"
                  /\ orders[hook[n].ref].status = "pending_payment"
        /\ \A o \in DOMAIN orders, status \in MPStatuses, paymentId \in PaymentIds :
              WebhookBody(orders[o], status, paymentId).release # << >> =>
                  /\ TargetStatus(status) = "failed"
                  /\ orders[o].status = "pending_payment" ]_vars

\* C10 witness: a late pending notification on a paid order was committed:
\* the order is back in pending_payment and its stock is still reserved
LateNotificationKeepsStock ==
    /\ sent.from = "hook" /\ sent.outcome = "committed"
    /\ \E o \in everPaid :
          /\ orders[o].status = "pending_payment"
          /\ hookRel[o] = 0
    /\ released = {} /\ manual = {}
    /\ \A p \in Products : stock[p] = InitStock - Reserved(p)

\* the order status the mapping table gives for a gateway status, and the
\* order's own status for a status outside the table
TableStatus(order, status) ==
    CASE status = "approved" -> "paid"
      [] status \in { "rejected", "cancelled", "refunded", "charged_back" } -> "failed"
      [] status \in { "in_process", "pending" } -> "pending_payment"
      [] OTHER -> order.status

\* the order after a handling that wrote it follows the table and mirrors
\* the gateway status
FollowsTable(before, after, status) ==
    /\ after.status = TableStatus(before, status)
    /\ after.paymentStatus = status
    /\ status = "approved" => after.paidAt # NULL

\* C11: the order status the handler writes depends on the gateway status
\* alone: approved gives paid with paidAt stamped, the failing statuses give
\* failed, in_process and pending give pending_payment, and a write leaves
\* the mirrored gateway status equal to the status the gateway returned;
\* for every order and status of the callback, and in every commit.
StatusFromGatewayAlone ==
    [][ /\ \A o \in DOMAIN orders, status \in MPStatuses, paymentId \in PaymentIds :
              WebhookBody(orders[o], status, paymentId).wrote =>
                  FollowsTable(orders[o], Handled(orders[o], status, paymentId), status)
        /\ \A n \in NotifIds :
              HookEnds(n) /\ sent'.outcome = "committed" =>
                  FollowsTable(orders[hook[n].ref], orders'[hook[n].ref],
                               hook[n].status) ]_vars

\* C11 witness: an approved payment was committed: the order is paid, paidAt
\* is stamped and the mirrored status is approved
ApprovedCommitted ==
    /\ sent.from = "hook" /\ sent.outcome = "committed"
    /\ \E o \in DOMAIN orders :
          /\ orders[o].status = "paid"
          /\ orders[o].paidAt # NULL
          /\ orders[o].paymentStatus = "approved"

\* notification n's handler reads its order in this step
HookReads(n) == HookStep(n) /\ hook'[n].pc = "commit"

\* C12: when the payment carries an external reference, the order the
\* handler reads and the only order it writes is the one the external
\* reference names; the orderId of the request's query decides nothing.
OnlyReferencedOrder ==
    [][ /\ \A ref \in CallIds, orderId \in QueryOrderIds :
              ResolveOrder(ref, orderId) = ref
        /\ \A n \in NotifIds :
              /\ HookReads(n) =>
                    /\ hook'[n].ref = hook'[n].externalReference
                    /\ hook'[n].order = orders[hook'[n].externalReference]
              /\ HookStep(n) =>
                    \A o \in DOMAIN orders :
                        orders'[o] # orders[o] =>
                            /\ hook[n].pc = "commit"
                            /\ o = hook[n].externalReference ]_vars

\* C12 witness: a notification whose query named order 1 and whose payment
\* referenced another order was committed: that other order was written and
\* order 1 is as createOrder left it
QueryOrderIdIgnored ==
    /\ sent.from = "hook" /\ sent.outcome = "committed"
    /\ sent.orderId = 1
    /\ sent.externalReference # 1
    /\ orders[sent.externalReference].mercadoPagoPaymentId # NULL
    /\ 1 \in DOMAIN orders
    /\ orders[1].mercadoPagoPaymentId = NULL

\* the stock of product p is what the committed reservations left of it
HeldByOrders(p) == stock[p] = InitStock - Reserved(p)

\* C13: calls for one unit of A racing for the stock of A (no release and
\* no manual set of A, the store and the gateway working): a call that ends
\* with the redirect url holds its reservation within the initial stock,
\* and a call that fails fails with the insufficient-stock error for A,
\* available 0, requested 1, leaves no order, and the whole initial stock
\* of A is then held by the orders of the calls that won: with stock 1 and
\* two calls, exactly one wins, the stock ends at 0 and one order exists.
OneWinner ==
    ( /\ sent.from = "call"
      /\ sent.items = << Item("A", 1) >>
      /\ "A" \notin released \cup manual
      /\ sent.status \in { 201, 400 } )
    => \/ /\ sent.status = 201
          /\ sent.id \in DOMAIN orders
          /\ Reserved("A") <= InitStock
          /\ HeldByOrders("A")
       \/ /\ sent.status = 400
          /\ sent.error.kind = "insufficient"
          /\ sent.error.id = "A"
          /\ sent.error.available = 0
          /\ sent.error.requested = 1
          /\ sent.id \notin DOMAIN orders
          /\ stock["A"] = 0
          /\ Reserved("A") = InitStock

\* C13 witness: of two calls for one unit of A in flight together, one got
\* its redirect url and the other lost the write conflict, ran its callback
\* again and has just failed for insufficient stock; one order exists and
\* the stock of A is 0
LoserAnswered ==
    /\ sent.from = "call" /\ sent.status = 400
    /\ sent.retried
    /\ sent.items = << Item("A", 1) >>
    /\ sent.error.kind = "insufficient"
    /\ Cardinality(DOMAIN orders) = 1
    /\ \A o \in DOMAIN orders :
          /\ orders[o].items = << Item("A", 1) >>
          /\ orders[o].mercadoPagoPreferenceId # NULL
    /\ stock["A"] = 0

\* the body of a checkout request is one the shape rules refuse
InvalidInput(items, customerDetails, totalAmount) ==
    \/ ~customerDetails
    \/ Len(items) = 0
    \/ IsNaN(ParseFloat(totalAmount))

\* C14: createOrder answers 400 to every request whose customer details or
\* items are missing or empty or whose totalAmount is not a number, and it
\* does so before any mutation: no order is inserted and nothing is given
\* back or taken from the stock.
InvalidInputRejected ==
    ( /\ sent.from = "call"
      /\ sent.status # 500
      /\ InvalidInput(sent.items, sent.customerDetails, sent.totalAmount) )
    => /\ sent.status = 400
       /\ sent.id \notin DOMAIN orders
       /\ sent.given = ZeroQty

\* C15: when createOrder succeeds the response is 201 with the redirect url
\* of the gateway, and the order exists in pending_payment with the items
\* of the cart, product ids and quantities as they were reserved, and with
\* the session id of the gateway stored on it.
SuccessLeavesOrder ==
    sent.from = "call" /\ sent.status = 201 =>
        /\ sent.mercadoPagoUrl = "init_point"
        /\ sent.id \in DOMAIN orders
        /\ orders[sent.id].status = "pending_payment"
        /\ orders[sent.id].items = sent.items
        /\ orders[sent.id].mercadoPagoPreferenceId = "pref"
        /\ \A p \in Products :
              p \notin released => stock[p] = InitStock - Reserved(p)

\* C15 witness: a call for two products has just been answered 201
TwoProductsOrdered ==
    /\ sent.from = "call" /\ sent.status = 201
    /\ sent.items = << Item("B", 1), Item("A", 1) >>
    /\ stock["A"] = InitStock - 1 /\ stock["B"] = InitStock - 1

\* what the cart asks of each product
Asked(items) == [p \in AllIds |-> SumQty(items, p)]

\* C16: a createOrder call leaves one order row when its reservation step
\* succeeded and none otherwise, and its stock changes persist only then:
\* a call whose reservation did not commit leaves the stock as it was, a
\* call answered 201 keeps what it reserved, and a call whose gateway step
\* failed has given back all that it reserved.
EffectsOfCall ==
    sent.from = "call" /\ PositiveCart(sent.items) =>
        /\ sent.status = 201 => sent.id \in DOMAIN orders /\ sent.given = ZeroQty
        /\ sent.id \notin DOMAIN orders => sent.given = ZeroQty
        /\ FailedAfterCommit(sent) => sent.given = Asked(sent.items)

\* the response sent by the step is the response of a request of the
\* operation op
Answers(op) == sent'.from = "ship" /\ sent'.op = op

\* the step lets a request of the operation op that arrived in slot s go on
\* to its update
Passes(s, op) ==
    /\ shipping[s].pc = "idle"
    /\ shipping'[s].pc = "update"
    /\ shipping'[s].op = op

\* C17: dispatch succeeds only on an order whose status is paid. A dispatch
\* request goes past its check only for an order found paid; one that finds
\* the order in another status is answered 400; no response on an order that
\* is not paid is a success and no order changes with it; and when the
\* response is a success the order was paid, it is shipped, its shippedAt is
\* set and its tracking number is the one supplied, null when none was.
DispatchOnlyOnPaid ==
    [][ /\ \A s \in ShipIds :
              Passes(s, "dispatch") =>
                  /\ shipping'[s].orderId \in DOMAIN orders
                  /\ orders[shipping'[s].orderId].status = "paid"
        /\ Answers("dispatch") /\ sent'.orderId \in DOMAIN orders =>
              LET o == sent'.orderId
              IN  /\ orders[o].status # "paid" =>
                        /\ sent'.status # 200
                        /\ orders' = orders
                  /\ db /\ shipping[sent'.id].pc = "idle" => sent'.status = 400
                  /\ sent'.status = 200 =>
                        /\ orders[o].status = "paid"
                        /\ orders'[o].status = "shipped"
                        /\ orders'[o].shippedAt # NULL
                        /\ orders'[o].trackingNumber =
                              (IF sent'.trackingNumber = "" THEN NULL
                               ELSE sent'.trackingNumber) ]_vars

\* C17 witness: an order was dispatched without a tracking number, and the
\* next dispatch request for it is answered 400
DispatchRefused ==
    /\ sent.from = "ship"
    /\ sent.op = "dispatch"
    /\ sent.status = 400
    /\ sent.orderId \in DOMAIN orders
    /\ orders[sent.orderId].status = "shipped"
    /\ orders[sent.orderId].trackingNumber = NULL

\* the status an operation requires and the status it leaves
Required(op) == IF op = "dispatch" THEN "paid" ELSE "shipped"
Leaves(op) == IF op = "dispatch" THEN "shipped" ELSE "paid"

\* the requests of the operation op for the order o that wait for their
\* update
Waiting(ship, op, o) ==
    { s \in ShipIds : ship[s].pc = "update" /\ ship[s].op = op /\ ship[s].orderId = o }

\* C18: no double shipping under a race. Of the dispatch requests that found
\* the same order paid, the one whose update is answered 200 found it still
\* paid and leaves it shipped with its own tracking number, stamped; the
\* requests still waiting then face an order that is no longer paid, and a
\* request whose update faces such an order is answered an error and changes
\* nothing, so that a second success needs somebody else to bring the order
\* back to paid. The same holds for the unship requests of a shipped order.
NoDoubleShipping ==
    [][ \A op \in { "dispatch", "unship" } :
          Answers(op) /\ sent'.orderId \in DOMAIN orders
                      /\ shipping[sent'.id].pc = "update" =>
              LET o == sent'.orderId
              IN  /\ sent'.status = 200 =>
                        /\ orders[o].status = Required(op)
                        /\ orders'[o].status = Leaves(op)
                        /\ orders'[o].shippedAt # NULL <=> op = "dispatch"
                        /\ orders'[o].trackingNumber =
                              (IF sent'.trackingNumber = "" THEN NULL
                               ELSE sent'.trackingNumber)
                        /\ \A t \in Waiting(shipping', op, o) :
                              orders'[o].status # Required(op)
                  /\ orders[o].status # Required(op) =>
                        /\ sent'.status \in { 404, 500 }
                        /\ orders' = orders ]_vars

\* C18 witness: two dispatch requests found the order paid; the one with
\* the tracking number won, and the one without is answered 404
RaceLost ==
    /\ sent.from = "ship"
    /\ sent.op = "dispatch"
    /\ sent.status = 404
    /\ sent.trackingNumber = ""
    /\ sent.orderId \in DOMAIN orders
    /\ orders[sent.orderId].status = "shipped"
    /\ orders[sent.orderId].trackingNumber = "trk"

\* C19: unship is the inverse of dispatch. An unship is answered 200 only
\* on an order that was shipped, and leaves it paid with shippedAt null and
\* tracking number null; and the unship of what a dispatch wrote is the
\* order as it was before that dispatch.
UnshipInverse ==
    [][ /\ Answers("unship") /\ sent'.status = 200 =>
              /\ sent'.orderId \in DOMAIN orders
              /\ orders[sent'.orderId].status = "shipped"
              /\ orders'[sent'.orderId].status = "paid"
              /\ orders'[sent'.orderId].shippedAt = NULL
              /\ orders'[sent'.orderId].trackingNumber = NULL
        /\ Answers("dispatch") /\ sent'.status = 200 =>
              UnshipSet(orders'[sent'.orderId]) = orders[sent'.orderId] ]_vars

\* the step takes stock of some product
TakesStock == \E p \in DOMAIN stock : stock'[p] < stock[p]

InternalErrorGeneric ==
    sent.from = "call" /\ sent.status = 500 => sent.message \in FixedMessages

\* C22: when the payment carries no external reference the handler falls
\* back to the orderId of the query. A notification whose payment has no
\* external reference and whose query names an order leaves this order as
\* the callback leaves an order it handled with the status of the payment.
QueryFallback ==
    [][ /\ sent'.from = "hook"
        /\ sent'.paymentGet
        /\ sent'.outcome = "noref"
        /\ sent'.orderId \in DOMAIN orders
        => orders'[sent'.orderId] =
              Handled(orders[sent'.orderId], sent'.paymentStatus, sent'.paymentId) ]_vars

\* the step marks order o failed: it was in pending_payment
MarksFailed(o) ==
    orders[o].status = "pending_payment" /\ orders'[o].status = "failed"

\* C23: the status write and the stock release of one notification are
\* atomic. A step marks an order failed exactly when it gives the stock of
\* its items back, whatever fails or is aborted in the handler: a step that
\* marks an order failed releases its items, and a step of a notification
\* that changes the stock marks the order of these items failed.
NotificationAtomic ==
    [][ /\ \A o \in DOMAIN orders :
              MarksFailed(o) => stock' = Release(stock, orders[o].items)
        /\ (\E n \in NotifIds : HookStep(n)) /\ stock' # stock =>
              \E o \in DOMAIN orders :
                  /\ MarksFailed(o)
                  /\ stock' = Release(stock, orders[o].items) ]_vars

\* C23 witness: the transaction of a notification that reported a failing
\* payment of an order in pending_payment was aborted, and neither the
\* status nor the stock changed
FailingAborted ==
    /\ sent.from = "hook"
    /\ sent.outcome = "aborted"
    /\ TargetStatus(sent.paymentStatus) = "failed"
    /\ \E o \in DOMAIN orders :
          /\ orders[o].status = "pending_payment"
          /\ hookRel[o] = 0
          /\ \A p \in Products : stock[p] = InitStock - Reserved(p)

\* C24: if payment.get fails, or the order the payment refers to does not
\* exist, the handler acknowledges and mutates nothing: the response is 200
\* and every order and every stock is after the handler what it was before.
FailedLookupMutatesNothing ==
    [][ /\ sent'.from = "hook"
        /\ sent'.paymentGet
        /\ \/ sent'.outcome = "getfails"
           \/ sent'.externalReference # 0
              /\ sent'.externalReference \notin DOMAIN orders
        => /\ sent'.status = 200
           /\ orders' = orders
           /\ stock' = stock ]_vars

\* C24 witness: a notification about a rejected payment that refers to an
\* order that does not exist was acknowledged, while an order waits for its
\* payment
UnknownOrderAcknowledged ==
    /\ sent.from = "hook"
    /\ sent.paymentStatus = "rejected"
    /\ sent.externalReference # 0
    /\ sent.externalReference \notin DOMAIN orders
    /\ \E o \in DOMAIN orders : orders[o].status = "pending_payment"

\* C25: a notification whose topic and type are not payment, or that
\* carries no payment id, is acknowledged without calling the gateway and
\* without changing any order or any stock.
NotAPaymentIgnored ==
    [][ /\ sent'.from = "hook"
        /\ \/ ~(sent'.topic = "payment" \/ sent'.bodyType = "payment")
           \/ sent'.paymentId = NULL
        => /\ sent'.status = 200
           /\ ~sent'.paymentGet
           /\ orders' = orders
           /\ stock' = stock ]_vars

\* C25 witness: a notification of type payment without a payment id was
\* acknowledged while an order waits for its payment
NoPaymentIdAcknowledged ==
    /\ sent.from = "hook"
    /\ sent.topic = "merchant_order"
    /\ sent.bodyType = "payment"
    /\ sent.paymentId = NULL
    /\ sent.status = 200
    /\ \E o \in DOMAIN orders : orders[o].status = "pending_payment"

\* the statuses of the gateway that the handler maps to an order status
MappedStatuses ==
    { "approved", "rejected", "cancelled", "refunded", "charged_back",
      "in_process", "pending" }

\* C26: for a gateway status outside the mapped ones the handler leaves the
\* status of the order and all stock unchanged and only mirrors the gateway
\* status and the payment id onto the order: when its transaction commits
\* the order differs from what it was in these two fields at most, and
\* when it does not commit nothing changes.
UnmappedStatusMirrored ==
    [][ /\ sent'.from = "hook"
        /\ sent'.paymentGet
        /\ sent'.externalReference \in DOMAIN orders
        /\ sent'.paymentStatus \notin MappedStatuses \cup { NULL }
        => /\ stock' = stock
           /\ orders' =
                IF sent'.outcome = "committed"
                THEN [orders EXCEPT ![sent'.externalReference] =
                        [@ EXCEPT !.paymentStatus = sent'.paymentStatus,
                                  !.mercadoPagoPaymentId = sent'.paymentId]]
                ELSE orders ]_vars

\* C26 witness: the notification of an authorized payment committed on an
\* order in pending_payment, which now mirrors this status
AuthorizedMirrored ==
    /\ sent.from = "hook"
    /\ sent.outcome = "committed"
    /\ sent.paymentStatus = "authorized"
    /\ orders[sent.externalReference].status = "pending_payment"
    /\ orders[sent.externalReference].paymentStatus = "authorized"
    /\ orders[sent.externalReference].mercadoPagoPaymentId = sent.paymentId

\* C27: a notification with status in_process or pending handled for an
\* order that is paid overwrites the status backward. The handler does not
\* stop at its guard: its transaction commits or is aborted, and when it
\* commits the order that was paid is in pending_payment.
PaidRegresses ==
    [][ /\ sent'.from = "hook"
        /\ sent'.paymentGet
        /\ sent'.paymentStatus \in { "in_process", "pending" }
        /\ sent'.externalReference \in DOMAIN orders
        /\ orders[sent'.externalReference].status = "paid"
        => /\ sent'.outcome \in { "committed", "aborted" }
           /\ sent'.outcome = "committed" =>
                 orders'[sent'.externalReference].status = "pending_payment" ]_vars

\* C27 witness: an order that was paid is back in pending_payment after
\* the notification of a payment in process
RegressedAfterPaid ==
    /\ sent.from = "hook"
    /\ sent.outcome = "committed"
    /\ sent.paymentStatus = "in_process"
    /\ sent.externalReference \in everPaid
    /\ orders[sent.externalReference].status = "pending_payment"
    /\ orders[sent.externalReference].paidAt # NULL

\* C28: during the compensation a failure to release one line item is not
\* retried, does not prevent the release of the remaining items and does not
\* prevent the error response. Every turn of the loop of a request gives
\* back the entry it is at or nothing, then moves to the next entry, and
\* after the last entry sends the error response.
CompensationGoesOn ==
    [][ \A c \in CallIds :
          call[c].pc = "rollback" /\ call'[c] # call[c] =>
              LET r == call[c]
                  item == r.itemsForRollback[r.rb]
              IN  /\ stock' \in { stock, Release(stock, << item >>) }
                  /\ IF r.rb = Len(r.itemsForRollback)
                     THEN /\ call'[c].pc = "done"
                          /\ sent'.from = "call"
                          /\ sent'.id = c
                          /\ sent'.status = ErrorStatus(r.error.kind)
                     ELSE /\ call'[c].pc = "rollback"
                          /\ call'[c].rb = r.rb + 1
                          /\ sent' = NoEvent ]_vars

\* C28 witness: the gateway failed for a cart of B and A, the release of B
\* failed, A was given back and the 500 was sent
ReleasedAfterFailure ==
    /\ sent.from = "call"
    /\ sent.status = 500
    /\ sent.items = << Item("B", 1), Item("A", 1) >>
    /\ sent.given["B"] = 0
    /\ sent.given["A"] = 1

CallStep(c) ==
    \/ call'[c].pc # call[c].pc
    \/ call'[c].rb # call[c].rb

\* C30: every change of the stock of a product is made by the checkout
\* orchestrator or by the notification handler: a step that changes a stock
\* value, or the products that have a record, is a step of a createOrder
\* request or of a notification.
OnlyOrchestratorsMoveStock ==
    [][ stock' # stock =>
          \/ \E c \in CallIds : CallStep(c)
          \/ \E n \in NotifIds : HookStep(n) ]_vars

\* the stock of order o was given back: by a notification that committed a
\* release, or by the compensation of the createOrder call that inserted it
GivenBack(o) ==
    \/ hookRel[o] > 0
    \/ /\ sent.from = "call" /\ sent.id = o
       /\ \E p \in AllIds : sent.given[p] > 0

\* C31: every order whose status is paid or shipped holds its reservation:
\* in every state the stock of such an order was not given back, whatever
\* notifications were handled for it (a failing status followed by approved
\* included).
PaidHoldsReservation ==
    \A o \in DOMAIN orders :
        orders[o].status \in { "paid", "shipped" } => ~GivenBack(o)

\* C32: every order whose status is pending_payment holds its reservation:
\* in no state an order is in pending_payment after its stock was given
\* back, neither by the compensation of createOrder after a gateway failure
\* nor by a failing notification that a pending one follows.
PendingHoldsReservation ==
    \A o \in DOMAIN orders :
        orders[o].status = "pending_payment" => ~GivenBack(o)

\* C33: failed is terminal under notifications: no step of the notification
\* handler takes an order whose status is failed to pending_payment or to
\* paid, whatever the payment and the status the gateway reports.
FailedIsTerminal ==
    [][ \A o \in DOMAIN orders :
          ( /\ orders[o].status = "failed"
            /\ \E n \in NotifIds : HookStep(n) )
          => orders'[o].status \notin { "pending_payment", "paid" } ]_vars

\* C34: an order in status shipped leaves that status only through unship:
\* no step of the notification handler changes the status of a shipped
\* order.
ShippedLeavesByUnship ==
    [][ \A o \in DOMAIN orders :
          ( /\ orders[o].status = "shipped"
            /\ \E n \in NotifIds : HookStep(n) )
          => orders'[o].status = "shipped" ]_vars

\* C35: when the checkout transaction aborts for a reason other than stock
\* after its line items were decremented inside it (the order insert
\* fails), createOrder gives nothing back: the decrements were never
\* committed, and the stock is left as it was before the call.
AbortedGivesNothingBack ==
    ( /\ sent.from = "call"
      /\ sent.error.kind = "store"
      /\ sent.id \notin DOMAIN orders )
    => sent.given = ZeroQty

\* C36: when withTransaction ran the callback of a createOrder call again
\* and the gateway step then failed, the compensation gave back, for every
\* product, exactly the quantity the committed transaction took, not the
\* quantity of every execution of the callback.
RetriedCompensatesOnce ==
    ( /\ FailedAfterCommit(sent)
      /\ sent.retried
      /\ sent.error.kind = "gw_plain"
      /\ PositiveCart(sent.items) )
    => \A p \in AllIds : sent.given[p] = SumQty(sent.items, p)

\* what createOrder call ev added to the stock of product p, from its
\* arrival to its response: what it gave back less what it committed
NetEffect(ev, p) ==
    ev.given[p] - (IF ev.id \in DOMAIN orders THEN SumQty(ev.items, p) ELSE 0)

\* C37: a createOrder call never leaves the stock of a product higher than
\* it found it, whatever the quantities of its line items: a reservation
\* that committed took a positive amount of each product, and a call with a
\* quantity that is not positive is rejected and changes no stock.
NeverRaisesStock ==
    sent.from = "call" =>
        /\ \A p \in AllIds : NetEffect(sent, p) <= 0
        /\ ~PositiveCart(sent.items) =>
              /\ sent.status # 201
              /\ sent.id \notin DOMAIN orders
              /\ sent.given = ZeroQty

\* createOrder call c returns in this step
CallEnds(c) == call[c].pc # "done" /\ call'[c].pc = "done"

\* C38: every createOrder call that passed the shape check sends one HTTP
\* response when it returns, whatever failed (the reservation, the order
\* insert, the gateway call, the update of the session id, a release of
\* the compensation) and whether the error thrown has a message or not.
AlwaysResponds ==
    [][ \A c \in CallIds :
          CallEnds(c) =>
              sent'.from = "call" /\ sent'.id = c /\ sent'.status # 0 ]_vars

\* the order notification n resolved to, while its transaction is open
Resolved(n) == ResolveOrder(hook[n].externalReference, hook[n].orderId)

\* C39: handling one notification changes at most the single order it
\* resolves to, and only the stock of products named in the line items of
\* that order: a step of the handler leaves every other order and the stock
\* of every other product as they were, and adds or removes no order and no
\* product record.
NotificationFrame ==
    [][ \A n \in NotifIds :
          HookStep(n) =>
            /\ DOMAIN orders' = DOMAIN orders
            /\ DOMAIN stock' = DOMAIN stock
            /\ \A o \in DOMAIN orders :
                  orders'[o] # orders[o] =>
                      hook[n].pc = "commit" /\ o = Resolved(n)
            /\ \A p \in DOMAIN stock :
                  stock'[p] # stock[p] =>
                      /\ hook[n].pc = "commit"
                      /\ p \in ItemIds(orders[Resolved(n)].items) ]_vars

\* C39 witness: the rejected payment of an order that holds A alone was
\* committed next to another order: the other order still waits for its
\* payment and the stock of B is what it was
OtherOrderUntouched ==
    /\ sent.from = "hook" /\ sent.outcome = "committed"
    /\ \E o \in DOMAIN orders, x \in DOMAIN orders :
          /\ o # x
          /\ sent.externalReference = o
          /\ hookRel[o] = 1
          /\ ItemIds(orders[o].items) = { "A" }
          /\ orders[x].status = "pending_payment"
    /\ stock["B"] = InitStock

\* C40: in every state an order whose status is paid or shipped has a
\* paidAt that is not null: paid is entered by an approved notification,
\* which stamps paidAt, or by unship from shipped, and neither dispatch nor
\* unship clears paidAt.
PaidHasPaidAt ==
    \A o \in DOMAIN orders :
        orders[o].status \in { "paid", "shipped" } => orders[o].paidAt # NULL

\* C40 witness: an order was paid, dispatched and returned by unship: it is
\* paid again, without shipping data and with its paidAt
UnshippedKeepsPaidAt ==
    /\ sent.from = "ship" /\ sent.op = "unship" /\ sent.status = 200
    /\ orders[sent.orderId].status = "paid"
    /\ orders[sent.orderId].shippedAt = NULL
    /\ orders[sent.orderId].paidAt # NULL
====
